---- MODULE Spec2Model ----
(***************************************************************************)
(* Share-link access control of powerbrief: the Share Issuer               *)
(* (shareBriefBatch / shareBriefConcept in src/lib/types/powerbrief.ts)    *)
(* and the Share Resolver (fetchSharedBatch in                             *)
(* app/public/brief/[shareId]/page.tsx, fetchSharedConcept in the shared   *)
(* concept page).                                                          *)
(*                                                                         *)
(* Timestamps (ISO strings in the code) are represented by the clock tick  *)
(* they denote; a null / absent expires_at is NoExpiry.                    *)
(***************************************************************************)
EXTENDS Integers, FiniteSets, Sequences, Bags, TLC

\* ---- bounds ----
MaxTime == 2        \* the clock runs over 0..MaxTime
MaxShares == 2      \* number of identifiers crypto.randomUUID() hands out
MaxFetches == 3     \* fetches of one page instance in flight at a time

\* ---- program values ----
NoExpiry == -1      \* expires_at: null
NoShare == 0        \* no share identifier (idle call slot, unmounted page)
None == "none"      \* null / undefined

Batches == {"b1", "b2"}                       \* rows of brief_batches
Concepts == {"c1", "c2"}                      \* rows of brief_concepts
NewBatches == {"b3"}                          \* ids uuidv4() gives to created rows
NewConcepts == {"c3"}
BatchIds == Batches \cup NewBatches
ConceptIds == Concepts \cup NewConcepts
Brands == {"br1"}                             \* rows of brands
NewBrands == {"br2"}                          \* id uuidv4() gives to a created brand
BrandIds == Brands \cup NewBrands
BatchOwnerIds == Batches \cup {"b0"}          \* "b0" matches no row
ConceptOwnerIds == {"c1", "c0"}               \* "c0" matches no row
Callers == {"u1", "u2"}                       \* concurrent issueShare calls
ShareIds == 1..MaxShares
Times == 0..MaxTime

DbError == "db error"                         \* error.message of the store

\* ShareSettings as passed by the caller (is_editable may be missing at run
\* time, expires_at is a timestamp or null, email is optional).
EditableValues == {"true", "false", "absent"}
ExpiryValues == {NoExpiry, 1}
EmailValues == {"absent", "a@x"}
ShareTypes == {"link", "email"}
\* Requests of the callers: link shares with every permission and expiry ...
LinkRequests ==
    [shareType : {"link"},
     settings : [is_editable : EditableValues, expires_at : ExpiryValues,
                 email : {"absent"}]]
\* ... and every combination of share type and email, for one permission.
NotifyRequests ==
    [shareType : ShareTypes,
     settings : [is_editable : {"true"}, expires_at : {NoExpiry}, email : EmailValues]]

VARIABLES
    batches,      \* brief_batches.share_settings: batch id -> (share id -> settings)
    concepts,     \* brief_concepts.share_settings: concept id -> (share id -> settings)
    brief_batch_id, \* brief_concepts.brief_batch_id: concept id -> batch id
    brand_id,     \* brief_batches.brand_id: batch id -> brand id
    brands,       \* the ids of the rows of the brands table
    now,          \* wall clock (new Date())
    nextId,       \* next identifier crypto.randomUUID() returns
    calls,        \* in-flight shareBriefBatch / shareBriefConcept calls, per caller
    hist,         \* per share identifier: what its call was given and how it ended
    lastReturned, \* the identifier returned by the last issuer step, if it returned one
    page,         \* the public page instance (route, params, React state, fetch position)
    minted,       \* row ids uuidv4() has generated for createBrand / createBriefBatch / createBriefConcept
    inserts       \* inserts sent to the store and not yet executed: row id -> row

vars == <<batches, concepts, brief_batch_id, brand_id, brands, now, nextId, calls, hist,
          lastReturned, page, minted, inserts>>

EmptyMap == <<>>    \* share_settings null / {}

IdleCall == [pc |-> "idle", kind |-> None, ownerId |-> None, shareType |-> None,
             settings |-> None, shareId |-> NoShare, createdAt |-> 0,
             rejected |-> FALSE]

\* Nothing thrown, nothing returned (so far).
NoError == [prefix |-> None, cause |-> None]
NoResult == [share_id |-> NoShare, share_url |-> [route |-> None, shareId |-> NoShare]]

NoHist == [status |-> "unused", kind |-> None, ownerId |-> None,
           shareType |-> None, settings |-> None, during |-> {},
           answer |-> "none", notify |-> "none", posted |-> <<>>,
           error |-> NoError, result |-> NoResult]

\* ---------------------------------------------------------------------
\* Share Issuer
\* ---------------------------------------------------------------------

\* `${origin}/public/brief/${shareId}` and `${origin}/public/concept/${shareId}`
ShareUrl(kind, shareId) ==
    [route |-> IF kind = "batch" THEN "brief" ELSE "concept", shareId |-> shareId]

\* { ...shareSettings, created_at: new Date().toISOString(), share_type: shareType }
SettingsRecord(settings, shareType, createdAt) ==
    [is_editable |-> settings.is_editable, expires_at |-> settings.expires_at,
     email |-> settings.email, created_at |-> createdAt, share_type |-> shareType]

\* .update({ share_settings: value }).eq('id', id): the column of the matching
\* row is replaced by value; matching no row is not an error.
UpdateShareSettings(table, id, value) ==
    IF id \in DOMAIN table THEN [table EXCEPT ![id] = value] ELSE table

\* The row's map before the update (what a merge would have to start from).
CurrentMap(table, id) == IF id \in DOMAIN table THEN table[id] ELSE EmptyMap

\* Variant: the new entry merged into the row's map.
SharePayloadMerged(current, shareId, rec) == (shareId :> rec) @@ current

\* share_settings: { [shareId]: {...} }: the value written is the new entry alone.
SharePayload(current, shareId, rec) == shareId :> rec

\* Variant: the share type is not looked at.
WantsNotificationAnyType(shareType, settings) == settings.email # "absent"

\* shareType === 'email' && shareSettings.email
WantsNotification(shareType, settings) ==
    shareType = "email" /\ settings.email # "absent"

\* body of the POST to /api/share/send-invitation:
\* { email, shareUrl, batchId | conceptId, shareId, shareType: 'batch' | 'concept' }
InvitationBody(c) ==
    [email |-> c.settings.email, shareUrl |-> ShareUrl(c.kind, c.shareId),
     ownerId |-> c.ownerId, shareId |-> c.shareId, shareType |-> c.kind]

\* { share_id: shareId, share_url: shareUrl }
ShareResult(c) == [share_id |-> c.shareId, share_url |-> ShareUrl(c.kind, c.shareId)]

\* new Error(`Failed to share brief batch: ${error.message}`)
ShareError(c, msg) ==
    [prefix |-> IF c.kind = "batch" THEN "Failed to share brief batch"
                ELSE "Failed to share brief concept",
     cause |-> msg]

\* The call starts: the identifier and the URL are generated, the payload
\* (with created_at) is built and the update is sent to the store.
IssueBegin(u, kind, ownerId, shareType, settings) ==
    /\ calls[u].pc = "idle"
    /\ nextId <= MaxShares
    /\ calls' = [calls EXCEPT ![u] =
                   [pc |-> "update", kind |-> kind, ownerId |-> ownerId,
                    shareType |-> shareType, settings |-> settings,
                    shareId |-> nextId, createdAt |-> now, rejected |-> FALSE]]
    /\ hist' = [hist EXCEPT ![nextId] =
                   [NoHist EXCEPT !.status = "pending", !.kind = kind,
                       !.ownerId = ownerId, !.shareType = shareType,
                       !.settings = settings,
                       !.during = {calls[v].shareId : v \in {w \in Callers : calls[w].pc # "idle"}}]]
    /\ nextId' = nextId + 1
    /\ lastReturned' = NoShare
    /\ UNCHANGED <<batches, concepts, brief_batch_id, brand_id, brands, now, page, minted, inserts>>

\* Variant: the error of the update is not looked at.
AfterUpdateUnchecked(c, h, failed) ==
    IF WantsNotification(c.shareType, c.settings)
    THEN [h EXCEPT !.notify = "sent", !.posted = Append(@, InvitationBody(c))]
    ELSE [h EXCEPT !.status = "returned", !.result = ShareResult(c)]

\* if (error) throw ...; otherwise on to the notification, or return.
AfterUpdate(c, h, failed) ==
    IF failed
    THEN [h EXCEPT !.status = "thrown", !.error = ShareError(c, DbError)]
    ELSE IF WantsNotification(c.shareType, c.settings)
         THEN [h EXCEPT !.notify = "sent", !.posted = Append(@, InvitationBody(c))]
         ELSE [h EXCEPT !.status = "returned", !.result = ShareResult(c)]

\* The store executes the update: it rejects it (nothing written) or
\* commits it; the response is on its way to the caller.
StoreUpdate(u, failed) ==
    LET c == calls[u]
        rec == SettingsRecord(c.settings, c.shareType, c.createdAt)
        table == IF c.kind = "batch" THEN batches ELSE concepts
        payload == SharePayload(CurrentMap(table, c.ownerId), c.shareId, rec)
    IN
    /\ c.pc = "update"
    /\ IF failed
       THEN UNCHANGED <<batches, concepts>>
       ELSE IF c.kind = "batch"
            THEN /\ batches' = UpdateShareSettings(batches, c.ownerId, payload)
                 /\ UNCHANGED concepts
            ELSE /\ concepts' = UpdateShareSettings(concepts, c.ownerId, payload)
                 /\ UNCHANGED batches
    /\ calls' = [calls EXCEPT ![u] = [c EXCEPT !.pc = "response", !.rejected = failed]]
    /\ UNCHANGED <<brief_batch_id, brand_id, brands, now, nextId, hist, lastReturned, page, minted, inserts>>

\* The response reaches the caller, the await ends: { data, error } is
\* looked at, then the notification is sent or the call returns.
IssueUpdate(u) ==
    LET c == calls[u]
        h == AfterUpdate(c, [hist[c.shareId] EXCEPT
                                !.answer = IF c.rejected THEN "error" ELSE "ok"],
                         c.rejected)
    IN
    /\ c.pc = "response"
    /\ hist' = [hist EXCEPT ![c.shareId] = h]
    /\ calls' = [calls EXCEPT ![u] =
                   IF h.status = "pending" THEN [c EXCEPT !.pc = "notify"] ELSE IdleCall]
    /\ lastReturned' = IF h.status = "returned" THEN c.shareId ELSE NoShare
    /\ UNCHANGED <<batches, concepts, brief_batch_id, brand_id, brands, now, nextId, page, minted, inserts>>

\* Variant: a rejected notification request is rethrown.
AfterNotifyRethrown(c, h, failed) ==
    IF failed
    THEN [h EXCEPT !.status = "thrown", !.error = ShareError(c, "notification failed")]
    ELSE [h EXCEPT !.status = "returned", !.result = ShareResult(c)]

\* try { await fetch('/api/share/send-invitation', ...) } catch { console.error }
\* and then the return.
AfterNotify(c, h, failed) ==
    [h EXCEPT !.status = "returned", !.result = ShareResult(c)]

\* The notification request settles: rejected (failed) or resolved.
IssueNotify(u, failed) ==
    LET c == calls[u]
        h == AfterNotify(c, [hist[c.shareId] EXCEPT
                                !.notify = IF failed THEN "failed" ELSE "delivered"], failed)
    IN
    /\ c.pc = "notify"
    /\ hist' = [hist EXCEPT ![c.shareId] = h]
    /\ calls' = [calls EXCEPT ![u] = IdleCall]
    /\ lastReturned' = IF h.status = "returned" THEN c.shareId ELSE NoShare
    /\ UNCHANGED <<batches, concepts, brief_batch_id, brand_id, brands, now, nextId, page, minted, inserts>>

\* ---------------------------------------------------------------------
\* Share Resolver
\* ---------------------------------------------------------------------
NotFoundBatch == "Shared content not found or has expired"
NotFoundConcept == "Shared concept not found or has expired"
SettingsMissing == "Share settings not found"
ExpiredMsg == "This shared link has expired"

\* Variant: every row with a non-empty map matches.
ContainsQueryAnyKey(table, shareId) ==
    {id \in DOMAIN table : DOMAIN table[id] # {}}

\* .contains('share_settings', { [shareId]: {} }): the rows whose map has the
\* key shareId (with an object as value; every stored value is one).
ContainsQuery(table, shareId) ==
    {id \in DOMAIN table : shareId \in DOMAIN table[id]}

\* Variant: the test for a set expires_at is left out.
IsExpiredUnset(shareSettings, clock) == shareSettings.expires_at < clock

\* shareSettings.expires_at && new Date(shareSettings.expires_at) < new Date()
IsExpired(shareSettings, clock) ==
    shareSettings.expires_at # NoExpiry /\ shareSettings.expires_at < clock

\* !!shareSettings.is_editable
Editable(shareSettings) == shareSettings.is_editable = "true"

\* .from('brief_concepts').select('*').eq('brief_batch_id', id): the rows of
\* the table whose brief_batch_id column is b, as a set (the order of the
\* list is not modelled).
ConceptsOfBatch(table, column, b) == {c \in DOMAIN table : column[c] = b}

\* brands(*) embedded in a row of brief_batches: the row of brands its
\* brand_id names, null when there is none.
EmbeddedBrand(brandRows, column, b) ==
    IF column[b] \in brandRows THEN column[b] ELSE None

\* { data, error } of a query of the page, on its way from the store: the
\* rows a containment query matched with their share_settings (and, for
\* batches, their embedded brand), or the concepts of a batch.
NoAnswer == [error |-> FALSE, rows |-> {}, table |-> <<>>, embedded |-> <<>>,
             listed |-> {}]

\* The store executes .select('*, brands(*)').contains('share_settings', ...)
\* on brief_batches.
SelectBatches(table, column, brandRows, shareId, failed) ==
    LET rows == IF failed THEN {} ELSE ContainsQuery(table, shareId) IN
    [NoAnswer EXCEPT !.error = failed, !.rows = rows,
                     !.table = [id \in rows |-> table[id]],
                     !.embedded = [id \in rows |-> EmbeddedBrand(brandRows, column, id)]]

\* The store executes .select('*').contains('share_settings', ...) on
\* brief_concepts.
SelectConcepts(table, shareId, failed) ==
    LET rows == IF failed THEN {} ELSE ContainsQuery(table, shareId) IN
    [NoAnswer EXCEPT !.error = failed, !.rows = rows,
                     !.table = [id \in rows |-> table[id]]]

\* The store executes the concepts query of the batch page.
SelectConceptsOfBatch(table, column, b, failed) ==
    [NoAnswer EXCEPT !.error = failed,
                     !.listed = IF failed THEN {} ELSE ConceptsOfBatch(table, column, b)]

InitPage == [route |-> None, shareId |-> NoShare, conceptId |-> None, pc |-> "done"]

\* SharedBriefPage: useState initial values, then the effect starts
\* (setLoading(true), the containment query is sent). shareId, pc, row
\* (batchWithShare) and answer belong to the running fetchSharedBatch call,
\* the one the effect started last; older holds the calls the effect started
\* before it that are still in flight, a bag of their shareId, pc, row and
\* answer (which of them started first makes no difference to any step). pc: "query" (containment query sent), "queryAnswer" (the store
\* has executed it, the answer is on its way), "concepts", "conceptsAnswer"
\* (the same for the concepts query), "done".
MountedBriefPage(shareId) ==
    [route |-> "brief", shareId |-> shareId, conceptId |-> None, pc |-> "query",
     row |-> None, answer |-> NoAnswer, older |-> EmptyBag,
     loading |-> TRUE, error |-> None, brand |-> None, batch |-> None,
     concepts |-> {}, isEditable |-> FALSE]

\* SharedConceptPage: params carries shareId only; a concept id in the path
\* (the link of the batch page) is not read.
MountedConceptPage(shareId, conceptId) ==
    [route |-> "concept", shareId |-> shareId, conceptId |-> conceptId,
     pc |-> "query", answer |-> NoAnswer, older |-> EmptyBag,
     loading |-> TRUE, error |-> None, concept |-> None]

\* A visitor opens /public/brief/<shareId>: a new component instance (the
\* setters of a fetch of the instance it replaces reach no page).
MountBrief(shareId) ==
    /\ page' = MountedBriefPage(shareId)
    /\ UNCHANGED <<batches, concepts, brief_batch_id, brand_id, brands, now, nextId, calls, hist, lastReturned, minted, inserts>>

\* A visitor opens /public/concept/<shareId>: a new component instance.
MountConcept(shareId) ==
    /\ page' = MountedConceptPage(shareId, None)
    /\ UNCHANGED <<batches, concepts, brief_batch_id, brand_id, brands, now, nextId, calls, hist, lastReturned, minted, inserts>>

\* The visitor of a rendered batch (loading false, no error, batch set)
\* follows "View full concept details": /public/concept/<shareId>/<concept.id>.
\* Which component serves this two-segment path is not in the source: it is
\* SharedConceptPage (served), or none of the pages of the source.
FollowConceptLink(c, served) ==
    /\ page.route = "brief"
    /\ ~page.loading /\ page.error = None /\ page.batch # None
    /\ c \in page.concepts
    /\ page' = IF served THEN MountedConceptPage(page.shareId, c) ELSE InitPage
    /\ UNCHANGED <<batches, concepts, brief_batch_id, brand_id, brands, now, nextId, calls, hist, lastReturned, minted, inserts>>

\* setError(msg); setLoading(false); the fetch ends.
Failed(p, msg) == [p EXCEPT !.error = msg, !.loading = FALSE, !.pc = "done"]

\* fetchSharedBatch from the answer of the containment query up to the
\* second await; row is batchData[0], table the share_settings of the rows
\* of the answer, brandData the brands of batchData[0], clock new Date().
BatchQueryAnswer(p, rows, row, table, brandData, clock, failed) ==
    IF failed THEN Failed(p, DbError)
    ELSE IF rows = {} THEN Failed(p, NotFoundBatch)
    ELSE IF p.shareId \notin DOMAIN table[row] THEN Failed(p, SettingsMissing)
    ELSE IF IsExpired(table[row][p.shareId], clock) THEN Failed(p, ExpiredMsg)
    ELSE [p EXCEPT !.isEditable = Editable(table[row][p.shareId]),
                   !.brand = IF brandData # None THEN brandData ELSE @,
                   !.batch = row, !.row = row, !.pc = "concepts"]

\* fetchSharedBatch after the concepts query: setConcepts(conceptsData), or
\* the catch block; finally setLoading(false).
BatchConceptsAnswer(p, listed, failed) ==
    IF failed THEN Failed(p, DbError)
    ELSE [p EXCEPT !.concepts = listed, !.loading = FALSE, !.pc = "done"]

\* fetchSharedConcept from the answer of the containment query to its end;
\* row is conceptData[0].
ConceptQueryAnswer(p, rows, row, table, clock, failed) ==
    IF failed THEN Failed(p, DbError)
    ELSE IF rows = {} THEN Failed(p, NotFoundConcept)
    ELSE IF p.shareId \notin DOMAIN table[row] THEN Failed(p, SettingsMissing)
    ELSE IF IsExpired(table[row][p.shareId], clock) THEN Failed(p, ExpiredMsg)
    ELSE [p EXCEPT !.concept = row, !.loading = FALSE, !.pc = "done"]

\* ---------------------------------------------------------------------
\* A mounted page whose shareId changes: the effect runs again ([shareId])
\* ---------------------------------------------------------------------
\* What a fetchSharedBatch / fetchSharedConcept call in flight holds of its
\* own: the shareId of its closure, its position, batchWithShare and the
\* answer it awaits.
FetchRecord(p) ==
    [shareId |-> p.shareId, pc |-> p.pc,
     row |-> IF p.route = "brief" THEN p.row ELSE None,
     answer |-> p.answer]

\* The effect starts a fetch for shareId s: setLoading(true) and the query
\* is sent. No other state is reset, and a fetch still in flight is neither
\* cancelled nor ignored: it joins the older fetches of the page.
StartFetch(p, s) ==
    LET superseded ==
            IF p.pc = "done" THEN p.older
            ELSE p.older (+) SetToBag({FetchRecord(p)})
    IN IF p.route = "brief"
       THEN [p EXCEPT !.shareId = s, !.pc = "query", !.row = None,
                      !.answer = NoAnswer, !.older = superseded, !.loading = TRUE]
       ELSE [p EXCEPT !.shareId = s, !.pc = "query",
                      !.answer = NoAnswer, !.older = superseded, !.loading = TRUE]

\* The number of fetches of the page in flight.
FetchesInFlight(p) == BagCardinality(p.older) + (IF p.pc = "done" THEN 0 ELSE 1)

\* The params of the mounted page change to shareId s (the fetches in
\* flight are capped at MaxFetches).
ChangeShareId(s) ==
    /\ page.route # None
    /\ s # page.shareId
    /\ FetchesInFlight(page) < MaxFetches
    /\ page' = StartFetch(page, s)
    /\ UNCHANGED <<batches, concepts, brief_batch_id, brand_id, brands, now, nextId, calls, hist, lastReturned, minted, inserts>>

\* The page as its older fetch f sees it: the same React state, its own
\* shareId, position, batchWithShare and answer.
OlderView(p, f) ==
    IF p.route = "brief"
    THEN [p EXCEPT !.shareId = f.shareId, !.pc = f.pc,
                   !.row = f.row, !.answer = f.answer]
    ELSE [p EXCEPT !.shareId = f.shareId, !.pc = f.pc,
                   !.answer = f.answer]

\* The page after a step of its older fetch f that led from OlderView(p, f)
\* to r: the state the step has set stays, the other fetches are where they
\* were, and a fetch that has ended is no longer in flight.
Rejoin(p, f, r) ==
    LET rest == p.older (-) SetToBag({f})
        o == IF r.pc = "done" THEN rest
             ELSE rest (+) SetToBag({FetchRecord(r)})
    IN IF p.route = "brief"
       THEN [r EXCEPT !.shareId = p.shareId, !.pc = p.pc, !.row = p.row,
                      !.answer = p.answer, !.older = o]
       ELSE [r EXCEPT !.shareId = p.shareId, !.pc = p.pc,
                      !.answer = p.answer, !.older = o]

\* The fetches of the page a step can be about: the running one, or the
\* older ones.
FetchesOf(p, older) == IF older THEN BagToSet(p.older) ELSE {FetchRecord(p)}
FetchOf(p, older, f) == IF older THEN OlderView(p, f) ELSE p
Resume(p, older, f, r) == IF older THEN Rejoin(p, f, r) ELSE r

\* ---------------------------------------------------------------------
\* The queries of the pages: the store executes a query that was sent
\* (Store...), and later the answer reaches the page and the fetch goes on
\* (Fetch...); older tells the superseded fetches from the running one.
\* ---------------------------------------------------------------------
StoreBatchQuery(older, failed) ==
    /\ page.route = "brief"
    /\ \E f \in FetchesOf(page, older) :
          LET q == FetchOf(page, older, f) IN
          /\ q.pc = "query"
          /\ page' = Resume(page, older, f,
                        [q EXCEPT !.pc = "queryAnswer",
                                  !.answer = SelectBatches(batches, brand_id, brands,
                                                           q.shareId, failed)])
    /\ UNCHANGED <<batches, concepts, brief_batch_id, brand_id, brands, now, nextId, calls, hist, lastReturned, minted, inserts>>

StoreBatchConcepts(older, failed) ==
    /\ page.route = "brief"
    /\ \E f \in FetchesOf(page, older) :
          LET q == FetchOf(page, older, f) IN
          /\ q.pc = "concepts"
          /\ page' = Resume(page, older, f,
                        [q EXCEPT !.pc = "conceptsAnswer",
                                  !.answer = SelectConceptsOfBatch(concepts, brief_batch_id,
                                                                   q.row, failed)])
    /\ UNCHANGED <<batches, concepts, brief_batch_id, brand_id, brands, now, nextId, calls, hist, lastReturned, minted, inserts>>

StoreConceptQuery(older, failed) ==
    /\ page.route = "concept"
    /\ \E f \in FetchesOf(page, older) :
          LET q == FetchOf(page, older, f) IN
          /\ q.pc = "query"
          /\ page' = Resume(page, older, f,
                        [q EXCEPT !.pc = "queryAnswer",
                                  !.answer = SelectConcepts(concepts, q.shareId, failed)])
    /\ UNCHANGED <<batches, concepts, brief_batch_id, brand_id, brands, now, nextId, calls, hist, lastReturned, minted, inserts>>

\* The answer of the containment query reaches fetchSharedBatch.
FetchBatchQuery(older) ==
    /\ page.route = "brief"
    /\ \E f \in FetchesOf(page, older) :
          LET q == FetchOf(page, older, f)
              a == q.answer IN
          /\ q.pc = "queryAnswer"
          /\ \E row \in (IF a.rows = {} THEN {None} ELSE a.rows) :
                page' = Resume(page, older, f,
                          [BatchQueryAnswer(q, a.rows, row, a.table,
                                            IF row = None THEN None ELSE a.embedded[row],
                                            now, a.error)
                             EXCEPT !.answer = NoAnswer])
    /\ UNCHANGED <<batches, concepts, brief_batch_id, brand_id, brands, now, nextId, calls, hist, lastReturned, minted, inserts>>

\* The answer of the concepts query reaches fetchSharedBatch.
FetchBatchConcepts(older) ==
    /\ page.route = "brief"
    /\ \E f \in FetchesOf(page, older) :
          LET q == FetchOf(page, older, f)
              a == q.answer IN
          /\ q.pc = "conceptsAnswer"
          /\ page' = Resume(page, older, f,
                        [BatchConceptsAnswer(q, a.listed, a.error)
                           EXCEPT !.answer = NoAnswer])
    /\ UNCHANGED <<batches, concepts, brief_batch_id, brand_id, brands, now, nextId, calls, hist, lastReturned, minted, inserts>>

\* The answer of the containment query reaches fetchSharedConcept.
FetchConceptQuery(older) ==
    /\ page.route = "concept"
    /\ \E f \in FetchesOf(page, older) :
          LET q == FetchOf(page, older, f)
              a == q.answer IN
          /\ q.pc = "queryAnswer"
          /\ \E row \in (IF a.rows = {} THEN {None} ELSE a.rows) :
                page' = Resume(page, older, f,
                          [ConceptQueryAnswer(q, a.rows, row, a.table, now, a.error)
                             EXCEPT !.answer = NoAnswer])
    /\ UNCHANGED <<batches, concepts, brief_batch_id, brand_id, brands, now, nextId, calls, hist, lastReturned, minted, inserts>>

\* What the component returns for a page state (the three return
\* statements of SharedBriefPage and of SharedConceptPage).
Screen(view, message, entity, editable, listed) ==
    [view |-> view, message |-> message, entity |-> entity,
     editable |-> editable, listed |-> listed]

\* Variant: the content is returned whenever the entity is set.
RenderedEntityFirst(p) ==
    LET entity == IF p.route = "brief" THEN p.batch ELSE p.concept IN
    IF p.loading THEN Screen("spinner", None, None, FALSE, {})
    ELSE IF entity # None
         THEN IF p.route = "brief"
              THEN Screen("content", None, entity, p.isEditable, p.concepts)
              ELSE Screen("content", None, entity, FALSE, {})
         ELSE Screen("alert", IF p.error # None THEN p.error ELSE "not found",
                     None, FALSE, {})

\* if (loading) spinner; if (error || !batch) alert with error || 'Content
\* not found'; otherwise the batch, its permission badge and its concepts
\* (the concept page: the concept alone).
Rendered(p) ==
    LET entity == IF p.route = "brief" THEN p.batch ELSE p.concept IN
    IF p.loading THEN Screen("spinner", None, None, FALSE, {})
    ELSE IF p.error # None \/ entity = None
         THEN Screen("alert", IF p.error # None THEN p.error ELSE "not found",
                     None, FALSE, {})
         ELSE IF p.route = "brief"
              THEN Screen("content", None, entity, p.isEditable, p.concepts)
              ELSE Screen("content", None, entity, FALSE, {})

\* ---------------------------------------------------------------------
\* updateBriefBatch / updateBriefConcept (lib/types/powerbrief.ts)
\* ---------------------------------------------------------------------
\* A key no issuer call generates, and a ShareSettings value.
ForeignId == MaxShares + 1
GivenSettings == [is_editable |-> "true", expires_at |-> NoExpiry, email |-> "absent"]

\* The share_settings field of the argument (Partial<BriefBatch>,
\* Partial<BriefConcept>, or the row to insert): not given, given empty
\* (null / {}), or given as a map with one key, one that no issuer call
\* generates.
PlainFields ==
    {[given |-> FALSE, value |-> EmptyMap], [given |-> TRUE, value |-> EmptyMap]}
UpdateFields ==
    PlainFields \cup {[given |-> TRUE, value |-> ForeignId :> GivenSettings]}

\* .update({ ...batch, updated_at }).eq('id', id): every column the argument
\* carries is replaced; share_settings is replaced when it is one of them.
UpdateRow(table, id, fields, failed) ==
    IF failed \/ ~fields.given THEN table
    ELSE UpdateShareSettings(table, id, fields.value)

\* .insert({ ...batch, id: uuidv4(), ... }): a new row with the columns given.
InsertRow(table, id, fields, failed) ==
    IF failed THEN table ELSE (id :> fields.value) @@ table

\* .delete().eq('id', id): the row is gone; matching no row is not an error.
DeleteRow(table, id, failed) ==
    IF failed THEN table ELSE [r \in DOMAIN table \ {id} |-> table[r]]

\* The brief_batch_id field of the argument of updateBriefConcept: not given
\* (None), or the id of a batch.
BatchFieldValues == {None} \cup Batches

\* A column of a table under .update: replaced in the matching row when the
\* argument carries it.
UpdateColumn(column, id, value, failed) ==
    IF failed \/ value = None \/ id \notin DOMAIN column THEN column
    ELSE [column EXCEPT ![id] = value]

\* A column of a table under .insert and .delete.
InsertColumn(column, id, value, failed) ==
    IF failed THEN column ELSE (id :> value) @@ column
DeleteColumn(column, id, failed) ==
    IF failed THEN column ELSE [r \in DOMAIN column \ {id} |-> column[r]]

\* The brand_id field of the argument of updateBriefBatch: not given (None),
\* or the id of a brand.
BrandFieldValues == {None} \cup BrandIds

\* .update({ ...batch, updated_at }).eq('id', batch.id): share_settings and
\* brand_id are replaced when the argument carries them.
UpdateBriefBatch(id, fields, brandId, failed) ==
    /\ batches' = UpdateRow(batches, id, fields, failed)
    /\ brand_id' = UpdateColumn(brand_id, id, brandId, failed)
    /\ UNCHANGED <<concepts, brief_batch_id, brands, now, nextId, calls, hist, lastReturned, page, minted, inserts>>

\* .update({ ...concept, updated_at }).eq('id', concept.id): share_settings
\* and brief_batch_id are replaced when the argument carries them.
UpdateBriefConcept(id, fields, batchId, failed) ==
    /\ concepts' = UpdateRow(concepts, id, fields, failed)
    /\ brief_batch_id' = UpdateColumn(brief_batch_id, id, batchId, failed)
    /\ UNCHANGED <<batches, brand_id, brands, now, nextId, calls, hist, lastReturned, page, minted, inserts>>

\* The row an insert carries: its share_settings (value) and the id it
\* refers to (brand_id of a batch, brief_batch_id of a concept).
InsertRequest(value, ref) == [value |-> value, ref |-> ref]

\* createBriefBatch up to its await: id: uuidv4(), and the insert of the row
\* with the share_settings and the brand_id of the argument is sent.
CreateBriefBatch(id, fields, brandId) ==
    /\ id \in NewBatches \ minted
    /\ minted' = minted \cup {id}
    /\ inserts' = (id :> InsertRequest(fields.value, brandId)) @@ inserts
    /\ UNCHANGED <<batches, concepts, brief_batch_id, brand_id, brands, now, nextId, calls, hist, lastReturned, page>>

\* The store executes the insert of createBriefBatch (which then returns the
\* row, or throws the error).
StoreInsertBatch(id, failed) ==
    /\ id \in DOMAIN inserts \cap BatchIds
    /\ batches' = InsertRow(batches, id, inserts[id], failed)
    /\ brand_id' = InsertColumn(brand_id, id, inserts[id].ref, failed)
    /\ inserts' = [r \in DOMAIN inserts \ {id} |-> inserts[r]]
    /\ UNCHANGED <<concepts, brief_batch_id, brands, now, nextId, calls, hist, lastReturned, page, minted>>

\* createBriefConcept up to its await: the row to insert has the
\* share_settings and the brief_batch_id of the argument.
CreateBriefConcept(id, fields, batchId) ==
    /\ id \in NewConcepts \ minted
    /\ minted' = minted \cup {id}
    /\ inserts' = (id :> InsertRequest(fields.value, batchId)) @@ inserts
    /\ UNCHANGED <<batches, concepts, brief_batch_id, brand_id, brands, now, nextId, calls, hist, lastReturned, page>>

\* The store executes the insert of createBriefConcept.
StoreInsertConcept(id, failed) ==
    /\ id \in DOMAIN inserts \cap ConceptIds
    /\ concepts' = InsertRow(concepts, id, inserts[id], failed)
    /\ brief_batch_id' = InsertColumn(brief_batch_id, id, inserts[id].ref, failed)
    /\ inserts' = [r \in DOMAIN inserts \ {id} |-> inserts[r]]
    /\ UNCHANGED <<batches, brand_id, brands, now, nextId, calls, hist, lastReturned, page, minted>>

\* .delete().eq('id', batchId) on brief_batches: the row with its columns.
DeleteBriefBatch(id, failed) ==
    /\ batches' = DeleteRow(batches, id, failed)
    /\ brand_id' = DeleteColumn(brand_id, id, failed)
    /\ UNCHANGED <<concepts, brief_batch_id, brands, now, nextId, calls, hist, lastReturned, page, minted, inserts>>

DeleteBriefConcept(id, failed) ==
    /\ concepts' = DeleteRow(concepts, id, failed)
    /\ brief_batch_id' = DeleteColumn(brief_batch_id, id, failed)
    /\ UNCHANGED <<batches, brand_id, brands, now, nextId, calls, hist, lastReturned, page, minted, inserts>>

\* createBrand up to its await: id: uuidv4(), and the insert is sent.
CreateBrand(id) ==
    /\ id \in NewBrands \ minted
    /\ minted' = minted \cup {id}
    /\ inserts' = (id :> InsertRequest(EmptyMap, None)) @@ inserts
    /\ UNCHANGED <<batches, concepts, brief_batch_id, brand_id, brands, now, nextId, calls, hist, lastReturned, page>>

\* The store executes the insert of createBrand.
StoreInsertBrand(id, failed) ==
    /\ id \in DOMAIN inserts \cap BrandIds
    /\ brands' = IF failed THEN brands ELSE brands \cup {id}
    /\ inserts' = [r \in DOMAIN inserts \ {id} |-> inserts[r]]
    /\ UNCHANGED <<batches, concepts, brief_batch_id, brand_id, now, nextId, calls, hist, lastReturned, page, minted>>

\* deleteBrand: .from('brands').delete().eq('id', brandId); the batches of
\* the brand stay (no cascade is in the source).
DeleteBrand(id, failed) ==
    /\ brands' = IF failed THEN brands ELSE brands \ {id}
    /\ UNCHANGED <<batches, concepts, brief_batch_id, brand_id, now, nextId, calls, hist, lastReturned, page, minted, inserts>>

\* ---------------------------------------------------------------------
\* Clock
\* ---------------------------------------------------------------------
Tick ==
    /\ now < MaxTime
    /\ now' = now + 1
    /\ UNCHANGED <<batches, concepts, brief_batch_id, brand_id, brands, nextId, calls, hist, lastReturned, page, minted, inserts>>

\* ---------------------------------------------------------------------
\* Specifications
\* ---------------------------------------------------------------------
Init ==
    /\ batches = [b \in Batches |-> EmptyMap]
    /\ concepts = [c \in Concepts |-> EmptyMap]
    /\ brief_batch_id = [c \in Concepts |-> IF c = "c2" THEN "b2" ELSE "b1"]
    /\ brand_id = [b \in Batches |-> "br1"]
    /\ brands = Brands
    /\ now = 0
    /\ nextId = 1
    /\ calls = [u \in Callers |-> IdleCall]
    /\ hist = [s \in ShareIds |-> NoHist]
    /\ lastReturned = NoShare
    /\ page = InitPage
    /\ minted = {}
    /\ inserts = <<>>

Issuer(callers, batchIds, conceptIds, requests) ==
    \/ \E u \in callers, o \in batchIds, r \in requests :
          IssueBegin(u, "batch", o, r.shareType, r.settings)
    \/ \E u \in callers, o \in conceptIds, r \in requests :
          IssueBegin(u, "concept", o, r.shareType, r.settings)
    \/ \E u \in callers, failed \in BOOLEAN : StoreUpdate(u, failed)
    \/ \E u \in callers : IssueUpdate(u)

Notifier(callers) ==
    \E u \in callers, failed \in BOOLEAN : IssueNotify(u, failed)

Visitor(ids) ==
    \/ \E s \in ids : MountBrief(s)
    \/ \E s \in ids : MountConcept(s)
    \/ \E c \in ConceptIds, served \in BOOLEAN : FollowConceptLink(c, served)
    \/ \E failed \in BOOLEAN : StoreBatchQuery(FALSE, failed)
    \/ \E failed \in BOOLEAN : StoreBatchConcepts(FALSE, failed)
    \/ \E failed \in BOOLEAN : StoreConceptQuery(FALSE, failed)
    \/ FetchBatchQuery(FALSE)
    \/ FetchBatchConcepts(FALSE)
    \/ FetchConceptQuery(FALSE)

Resolver == Visitor(ShareIds)

\* Issuing and resolving: one caller at a time, link shares of every
\* permission and expiry on the existing rows.
Next ==
    \/ Issuer({"u1"}, Batches, {"c1"}, LinkRequests)
    \/ Resolver
    \/ Tick

Spec == Init /\ [][Next]_vars

\* Expiry and lookup: shares of one batch and one concept that differ in
\* their expiry only.
ExpiryRequests ==
    [shareType : {"link"},
     settings : [is_editable : {"true"}, expires_at : ExpiryValues, email : {"absent"}]]

NextExpiry ==
    \/ Issuer({"u1"}, {"b1"}, {"c1"}, ExpiryRequests)
    \/ Resolver
    \/ Tick

SpecExpiry == Init /\ [][NextExpiry]_vars

\* The issuer alone: concurrent callers, every share type and email, owner
\* ids with and without a row; the clock stands still.
NextIssuer ==
    \/ Issuer(Callers, BatchOwnerIds, ConceptOwnerIds, NotifyRequests)
    \/ Notifier(Callers)

SpecIssuer == Init /\ [][NextIssuer]_vars

\* The row operations, on the given rows with the given share_settings.
Updater(batchIds, batchFields, brandValues, conceptIds, conceptFields) ==
    \/ \E b \in batchIds, f \in batchFields, r \in brandValues, failed \in BOOLEAN :
          UpdateBriefBatch(b, f, r, failed)
    \/ \E c \in conceptIds, f \in conceptFields, v \in BatchFieldValues,
          failed \in BOOLEAN :
          UpdateBriefConcept(c, f, v, failed)
    \/ \E b \in batchIds, failed \in BOOLEAN : DeleteBriefBatch(b, failed)
    \/ \E c \in conceptIds, failed \in BOOLEAN : DeleteBriefConcept(c, failed)

\* createBriefBatch and createBriefConcept with the given share_settings,
\* brand_id and brief_batch_id, and the store executing their inserts.
Creator(batchFields, brandIds, conceptFields, batchIds) ==
    \/ \E b \in NewBatches, f \in batchFields, r \in brandIds :
          CreateBriefBatch(b, f, r)
    \/ \E b \in NewBatches, failed \in BOOLEAN : StoreInsertBatch(b, failed)
    \/ \E c \in NewConcepts, f \in conceptFields, v \in batchIds :
          CreateBriefConcept(c, f, v)
    \/ \E c \in NewConcepts, failed \in BOOLEAN : StoreInsertConcept(c, failed)

\* createBrand and deleteBrand.
BrandKeeper(ids) ==
    \/ \E r \in NewBrands : CreateBrand(r)
    \/ \E r \in NewBrands, failed \in BOOLEAN : StoreInsertBrand(r, failed)
    \/ \E r \in ids, failed \in BOOLEAN : DeleteBrand(r, failed)

\* Issuing, resolving and the row operations on the same tables: one kind
\* of share on b1 and c1; b1 and c1 are updated and deleted, b3 and c3
\* created (maps with keys are given for batches only, a concept is moved
\* to either batch); visitors open the foreign identifier too; the clock
\* stands still.
UnexpiringRequests ==
    [shareType : {"link"},
     settings : [is_editable : {"true"}, expires_at : {NoExpiry}, email : {"absent"}]]

NextUpdate ==
    \/ Issuer({"u1"}, {"b1"}, {"c1"}, UnexpiringRequests)
    \/ Updater({"b1"}, UpdateFields, {None}, {"c1"}, PlainFields)
    \/ Creator(UpdateFields, {"br1"}, PlainFields, {"b1"})
    \/ Visitor({1, ForeignId})

SpecUpdate == Init /\ [][NextUpdate]_vars

\* A page that lives through changes of its shareId, over shares of two
\* batches and one concept that do not expire (the clock stands still).
Navigator(ids) ==
    \/ \E s \in ids : ChangeShareId(s)
    \/ \E failed \in BOOLEAN : StoreBatchQuery(TRUE, failed)
    \/ \E failed \in BOOLEAN : StoreBatchConcepts(TRUE, failed)
    \/ \E failed \in BOOLEAN : StoreConceptQuery(TRUE, failed)
    \/ FetchBatchQuery(TRUE)
    \/ FetchBatchConcepts(TRUE)
    \/ FetchConceptQuery(TRUE)

NextPage ==
    \/ Issuer({"u1"}, Batches, {"c1"}, UnexpiringRequests)
    \/ Resolver
    \/ Navigator(ShareIds)

SpecPage == Init /\ [][NextPage]_vars

\* The brand of a batch: brands are created and deleted, b3 is created with
\* a share_settings key for either brand and moved between the brands, c3
\* is created for b3, while a page is opened for the key (and for an identifier of no row) and
\* lives through changes of its shareId.
KeyFields == [given |-> TRUE, value |-> ForeignId :> GivenSettings]
NotGiven == [given |-> FALSE, value |-> EmptyMap]

NextBrand ==
    \/ Visitor({ForeignId})
    \/ Navigator({1, ForeignId})
    \/ BrandKeeper(BrandIds)
    \/ \E r \in BrandIds : CreateBriefBatch("b3", KeyFields, r)
    \/ \E failed \in BOOLEAN : StoreInsertBatch("b3", failed)
    \/ \E r \in BrandFieldValues, failed \in BOOLEAN :
          UpdateBriefBatch("b3", NotGiven, r, failed)
    \/ CreateBriefConcept("c3", NotGiven, "b3")
    \/ \E failed \in BOOLEAN : StoreInsertConcept("c3", failed)

SpecBrand == Init /\ [][NextBrand]_vars

\* ---------------------------------------------------------------------
\* Vocabulary of the properties
\* ---------------------------------------------------------------------
TableOf(kind) == IF kind = "batch" THEN batches ELSE concepts
RouteOf(kind) == IF kind = "batch" THEN "brief" ELSE "concept"
Issued(s) == hist[s].status = "returned"
OwnerExists(s) == hist[s].ownerId \in DOMAIN TableOf(hist[s].kind)
EntryPresent(s) == OwnerExists(s) /\ s \in DOMAIN TableOf(hist[s].kind)[hist[s].ownerId]

\* This step is the store executing the containment query of the running
\* fetch of the page, without an error.
QueryExecuted(route) ==
    /\ page.route = route /\ page.pc = "query"
    /\ page'.route = route /\ page'.pc = "queryAnswer"
    /\ ~page'.answer.error

\* This step is the answer to that query reaching the page ...
AnswerArrives(route) ==
    /\ page.route = route /\ page.pc = "queryAnswer"
    /\ page'.route = route /\ page'.pc \in {"concepts", "done"}

\* ... an answer with data, not an error of the store.
QueryAnswered(route) == AnswerArrives(route) /\ ~page.answer.error

\* The entries for the shareId of fetch p in the answer it is waiting for,
\* and whether the row named ownerId of share s is one of the rows of the
\* answer.
AnswerEntries(p) ==
    {p.answer.table[id][p.shareId] :
        id \in {i \in p.answer.rows : p.shareId \in DOMAIN p.answer.table[i]}}
InAnswer(p, s) == hist[s].ownerId \in p.answer.rows

\* The owning entity and the permission a page state yields to the visitor.
YieldedEntity(p) == IF p.route = "brief" THEN p.batch ELSE p.concept
YieldedEditable(p) == IF "isEditable" \in DOMAIN p THEN p.isEditable ELSE FALSE
Succeeded(p) == p.error = None /\ YieldedEntity(p) # None

\* This step resolves share s through the route of its owner kind: the
\* store executes the query (Reading), the answer reaches the page
\* (Resolving).
Reading(s) == QueryExecuted(RouteOf(hist[s].kind)) /\ page.shareId = s
Resolving(s) == QueryAnswered(RouteOf(hist[s].kind)) /\ page.shareId = s

\* Every entry of the map of every row of old that is a row of new is in
\* new, with the same value.
EntriesKept(old, new) ==
    \A id \in DOMAIN old \cap DOMAIN new : \A a \in DOMAIN old[id] :
        a \in DOMAIN new[id] /\ new[id][a] = old[id][a]

\* ---------------------------------------------------------------------
\* C1 - additive merge: a successful issue on an entity leaves every entry
\* already in its share-settings map present and unchanged, and the map of
\* an entity holds every identifier returned for it.
\* ---------------------------------------------------------------------
C1_AdditiveMerge ==
    /\ [][EntriesKept(batches, batches') /\ EntriesKept(concepts, concepts')]_vars
    /\ [](\A s \in ShareIds : (Issued(s) /\ OwnerExists(s)) => EntryPresent(s))

\* ---------------------------------------------------------------------
\* C2 - a share issued (for an existing entity) with no expires_at resolves
\* successfully, to its entity, whenever it is resolved later: a query the
\* store executes after the call has returned finds the owner, and an
\* answer with the owner makes the page succeed with it.
\* ---------------------------------------------------------------------
C2_NoExpiryResolvesForever ==
    [][\A s \in ShareIds :
         (/\ Issued(s) /\ OwnerExists(s)
          /\ hist[s].settings.expires_at = NoExpiry)
         => /\ Reading(s) => InAnswer(page', s)
            /\ (Resolving(s) /\ InAnswer(page, s))
                 => (Succeeded(page') /\ YieldedEntity(page') = hist[s].ownerId)]_vars

\* ---------------------------------------------------------------------
\* C3 - a share issued (for an existing entity) with expires_at = t resolves
\* successfully, to its entity, while the current time has not passed t, and
\* fails with Expired once it has, on both routes: a query the store
\* executes after the call has returned finds the owner, and an answer with
\* the owner makes the page succeed for now <= t and end with Expired for
\* now > t. (The boundary is the one of the resolvers and of spec 4.2 step
\* 5, expired strictly after t; the claim puts now = t on the Expired side.)
\* ---------------------------------------------------------------------
C3_ResolvesUntilExpiry ==
    [][\A s \in ShareIds :
         (/\ Issued(s) /\ OwnerExists(s)
          /\ hist[s].settings.expires_at # NoExpiry)
         => /\ Reading(s) => InAnswer(page', s)
            /\ (Resolving(s) /\ InAnswer(page, s))
                 => /\ now <= hist[s].settings.expires_at
                         => (Succeeded(page') /\ YieldedEntity(page') = hist[s].ownerId)
                    /\ now > hist[s].settings.expires_at
                         => (page'.error = ExpiredMsg /\ YieldedEntity(page') = None)]_vars

NotFoundOf(route) == IF route = "brief" THEN NotFoundBatch ELSE NotFoundConcept

\* The entries the containment query of a route matches for identifier s.
StoreOf(route) == IF route = "brief" THEN batches ELSE concepts
MatchedEntries(route, s) ==
    {StoreOf(route)[id][s] :
        id \in {i \in DOMAIN StoreOf(route) : s \in DOMAIN StoreOf(route)[i]}}

\* ---------------------------------------------------------------------
\* C4 - as claimed: resolving an identifier no issueShare call has returned
\* ends with an error and yields no entity; when the store answered, the
\* error is the NotFound of the route.
\* ---------------------------------------------------------------------
C4_NeverIssuedNotFound ==
    [][(/\ \E r \in {"brief", "concept"} : AnswerArrives(r)
        /\ ~Issued(page.shareId))
       => /\ page'.pc = "done" /\ ~page'.loading
          /\ page'.error # None
          /\ YieldedEntity(page') = None
          /\ page'.error # DbError => page'.error = NotFoundOf(page.route)]_vars

\* C4 - as amended: resolving an identifier that is a key of no map of the
\* route's collection when the store executes the query ends the fetch
\* with the NotFound message of the route (or the error of the store) and
\* the page presents that message alone; on both routes.
C4_AbsentKeyNotFound ==
    [][\A r \in {"brief", "concept"} :
         /\ (QueryExecuted(r) /\ MatchedEntries(r, page.shareId) = {})
              => page'.answer.rows = {}
         /\ (AnswerArrives(r) /\ page.answer.rows = {})
              => /\ page'.pc = "done" /\ ~page'.loading
                 /\ page'.error = IF page.answer.error THEN DbError ELSE NotFoundOf(r)
                 /\ Rendered(page') = Screen("alert", page'.error, None, FALSE, {})]_vars

\* A fetch for an identifier not handed out so far has ended in NotFound,
\* while other shares exist in the store.
C4_Witness ==
    /\ page.route = "brief" /\ page.pc = "done"
    /\ hist[page.shareId].status = "unused"
    /\ page.error = NotFoundBatch
    /\ \E b \in DOMAIN batches : DOMAIN batches[b] # {}

\* ---------------------------------------------------------------------
\* C5 - every successful resolution, on either route, yields
\* editable = is_editable of the resolved entry (false when it is absent).
\* ---------------------------------------------------------------------
C5_EditableAsIssued ==
    [][\A route \in {"brief", "concept"} :
         (QueryAnswered(route) /\ Succeeded(page'))
         => LET entry == page.answer.table[YieldedEntity(page')][page.shareId]
            IN YieldedEditable(page') = (entry.is_editable = "true")]_vars

\* expires_at absent or in the future
Unexpiring(s) ==
    hist[s].settings.expires_at = NoExpiry \/ hist[s].settings.expires_at > now

\* ---------------------------------------------------------------------
\* C6 - round trip: the share a shareBriefBatch call on an existing batch has
\* just returned, unexpired, resolves to exactly that batch with the issued
\* permission; and after shareA then shareB on one batch, shareA resolves to
\* the batch and the entry of shareB is in the map.
\* ---------------------------------------------------------------------
C6_RoundTrip ==
    [][\A a \in ShareIds :
         (/\ Issued(a) /\ hist[a].kind = "batch" /\ OwnerExists(a)
          /\ Unexpiring(a))
         => /\ (Reading(a) /\ lastReturned = a) => InAnswer(page', a)
            /\ (Resolving(a) /\ InAnswer(page, a))
                 => /\ Succeeded(page') /\ page'.batch = hist[a].ownerId
                    /\ page'.isEditable = (hist[a].settings.is_editable = "true")
            /\ \A b \in ShareIds :
                 (/\ b > a /\ Issued(b) /\ hist[b].kind = "batch"
                  /\ hist[b].ownerId = hist[a].ownerId
                  /\ Reading(a))
                 => /\ InAnswer(page', a)
                    /\ b \in DOMAIN batches[hist[a].ownerId]]_vars

\* ---------------------------------------------------------------------
\* C7 - once the write has succeeded, a failed notification does not fail the
\* call: it returns { share_id, share_url }, no error reaches the caller and
\* the store keeps what was written.
\* ---------------------------------------------------------------------
C7_NotificationAbsorbed ==
    [][\A u \in Callers :
         (/\ calls[u].pc = "notify" /\ calls'[u].pc # "notify"
          /\ hist'[calls[u].shareId].notify = "failed")
         => LET s == calls[u].shareId IN
            /\ hist[s].answer = "ok"
            /\ hist'[s].status = "returned"
            /\ hist'[s].error = NoError
            /\ hist'[s].result =
                 [share_id |-> s,
                  share_url |-> [route |-> RouteOf(hist[s].kind), shareId |-> s]]
            /\ lastReturned' = s
            /\ batches' = batches /\ concepts' = concepts]_vars

\* A call has returned although its notification failed, and its entry is stored.
C7_Witness ==
    \E s \in ShareIds :
        /\ hist[s].notify = "failed" /\ hist[s].status = "returned"
        /\ EntryPresent(s)

\* ---------------------------------------------------------------------
\* C8 - a write the store answered with an error makes the call throw an
\* error that carries the cause; such a call returns nothing.
\* ---------------------------------------------------------------------
C8_WriteErrorSurfaced ==
    \A s \in ShareIds :
        /\ hist[s].answer = "error"
             => /\ hist[s].status = "thrown"
                /\ hist[s].error.cause = DbError
                /\ hist[s].result = NoResult
        /\ hist[s].status = "returned" => (hist[s].answer = "ok" /\ hist[s].error = NoError)

C8_Witness ==
    \E s \in ShareIds :
        /\ hist[s].answer = "error" /\ hist[s].status = "thrown"
        /\ hist[s].error = [prefix |-> "Failed to share brief batch", cause |-> DbError]

\* The map of batch b has an entry for s that has not expired.
ValidBatchShare(s, b) ==
    s \in DOMAIN batches[b] /\ ~IsExpired(batches[b][s], now)

\* ---------------------------------------------------------------------
\* C9 - nested concept view: with a valid batch share S, a concept of that
\* batch opened through the concept route with S and its own id is shown,
\* whether or not its own map has an entry for S.
\* ---------------------------------------------------------------------
C9_NestedConceptView ==
    [][(/\ QueryAnswered("concept")
        /\ page.conceptId # None
        /\ ValidBatchShare(page.shareId, brief_batch_id[page.conceptId]))
       => (Succeeded(page') /\ page'.concept = page.conceptId)]_vars

\* The call of s1 was in flight when the call of s2 began; both returned,
\* for the same existing entity.
Overlapping(s1, s2) ==
    /\ s1 \in hist[s2].during
    /\ Issued(s1) /\ Issued(s2)
    /\ hist[s1].kind = hist[s2].kind /\ hist[s1].ownerId = hist[s2].ownerId
    /\ OwnerExists(s1)

\* ---------------------------------------------------------------------
\* C10 - lost update: when two calls on the same existing entity overlap and
\* both return, the entity's map lacks one of the two returned identifiers.
\* ---------------------------------------------------------------------
C10_LostUpdate ==
    \A s1, s2 \in ShareIds :
        Overlapping(s1, s2) => ~(EntryPresent(s1) /\ EntryPresent(s2))

\* Two overlapping calls have both returned; the map holds the later writer's
\* identifier only.
C10_Witness ==
    \E s1, s2 \in ShareIds :
        /\ Overlapping(s1, s2)
        /\ (EntryPresent(s1) /\ ~EntryPresent(s2)) \/ (EntryPresent(s2) /\ ~EntryPresent(s1))

\* The lifecycle states of identifier s in the map of entity id of table,
\* read at time clock.
Present(table, id, s) == s \in DOMAIN table[id]
ExpiredIn(table, id, s, clock) ==
    Present(table, id, s) /\ IsExpired(table[id][s], clock)

\* Present stays present, and Expired stays Expired, from (old, t0) to
\* (new, t1).
LifecycleStep(old, t0, new, t1) ==
    \A id \in DOMAIN old : \A s \in ShareIds :
        /\ Present(old, id, s) => Present(new, id, s)
        /\ ExpiredIn(old, id, s, t0) => ExpiredIn(new, id, s, t1)

\* ---------------------------------------------------------------------
\* C11 - lifecycle per identifier: an entry once in its owner's map stays
\* there (no removed state) and moves from Active to Expired only, so an
\* identifier that resolved to Expired never resolves successfully later.
\* ---------------------------------------------------------------------
C11_MonotonicLifecycle ==
    [][/\ LifecycleStep(batches, now, batches', now')
       /\ LifecycleStep(concepts, now, concepts', now')]_vars

\* The map of a row that old and new both have differs.
MapsChanged(old, new) ==
    \E id \in DOMAIN old \cap DOMAIN new : new[id] # old[id]

\* This step is the store applying the write of an issueShare call.
IssuerWrite ==
    \E u \in Callers : calls[u].pc = "update" /\ calls'[u].pc # "update"

\* ---------------------------------------------------------------------
\* C12 - the share-settings maps change only in an issuer write and only
\* by gaining entries: updateBriefBatch, updateBriefConcept and the
\* resolvers leave every entry as it is, and no step removes or replaces
\* an entry.
\* ---------------------------------------------------------------------
C12_OnlyIssuerAdds ==
    [][/\ EntriesKept(batches, batches') /\ EntriesKept(concepts, concepts')
       /\ (MapsChanged(batches, batches') \/ MapsChanged(concepts, concepts'))
            => IssuerWrite]_vars

\* ---------------------------------------------------------------------
\* C13 - on both routes the answered query ends in Expired exactly when
\* the matched entry has expires_at set and strictly before the time at
\* which the answer reaches the page; a matched entry with expires_at null, equal to or after the
\* current time resolves; without a matched entry the outcome is NotFound,
\* so an entry that is present but expired gives Expired, not NotFound.
\* ---------------------------------------------------------------------
C13_ExpiredExactly ==
    [][\A r \in {"brief", "concept"} :
         QueryAnswered(r) =>
           LET E == AnswerEntries(page) IN
           /\ page'.error = ExpiredMsg
                <=> (E # {} /\ \A e \in E :
                        e.expires_at # NoExpiry /\ e.expires_at < now)
           /\ (E # {} /\ \A e \in E :
                  e.expires_at = NoExpiry \/ e.expires_at >= now)
                => Succeeded(page')
           /\ E = {} => page'.error = NotFoundOf(r)]_vars

\* The concept resolver has rejected as Expired an entry that is in the map.
C13_Witness ==
    /\ page.route = "concept" /\ page.pc = "done"
    /\ page.error = ExpiredMsg
    /\ MatchedEntries("concept", page.shareId) # {}

\* The call that got identifier s asked for a notification that is due:
\* an email share with an address, whose write the store has accepted.
NotificationDue(s) ==
    /\ hist[s].status # "unused"
    /\ hist[s].shareType = "email" /\ hist[s].settings.email # "absent"
    /\ hist[s].answer = "ok"

\* ---------------------------------------------------------------------
\* C15 - a call posts a notification exactly when its shareType is email,
\* an email address is given and its write has succeeded, and then exactly
\* one: none for a link share, none without an address, none after a
\* failed write (nor before the write is answered). The body posted names
\* the identifier and the URL the call returns.
\* ---------------------------------------------------------------------
C15_NotificationDispatch ==
    \A s \in ShareIds :
        /\ Len(hist[s].posted) = IF NotificationDue(s) THEN 1 ELSE 0
        /\ \A i \in 1..Len(hist[s].posted) :
              /\ hist[s].posted[i].shareId = s
              /\ hist[s].posted[i].shareUrl =
                    [route |-> RouteOf(hist[s].kind), shareId |-> s]
              /\ hist[s].posted[i].email = hist[s].settings.email
              /\ hist[s].status = "returned"
                    => /\ hist[s].posted[i].shareId = hist[s].result.share_id
                       /\ hist[s].posted[i].shareUrl = hist[s].result.share_url

\* An email share has returned after one notification was posted, and a link
\* share that was given an address has returned without any.
C15_Witness ==
    \E s, t \in ShareIds :
        /\ hist[s].status = "returned" /\ Len(hist[s].posted) = 1
        /\ hist[t].status = "returned" /\ hist[t].shareType = "link"
        /\ hist[t].settings.email # "absent" /\ hist[t].posted = <<>>

\* Identifier s is a key of the map of the entity its call named, in the
\* given tables.
KeyOfOwner(s, batchTable, conceptTable) ==
    LET table == IF hist[s].kind = "batch" THEN batchTable ELSE conceptTable IN
    hist[s].ownerId \in DOMAIN table /\ s \in DOMAIN table[hist[s].ownerId]

\* ---------------------------------------------------------------------
\* C16 - when shareBriefBatch or shareBriefConcept returns a result, the
\* share_id it returns is a key of the share-settings map of the entity
\* its ownerId names; no call returns an identifier that resolves to
\* nothing because ownerId matches no record.
\* ---------------------------------------------------------------------
C16_ReturnedIdStored ==
    [][\A s \in ShareIds :
         (hist[s].status # "returned" /\ hist'[s].status = "returned")
         => KeyOfOwner(s, batches', concepts')]_vars

\* Identifier s was handed out for an entity of the given kind.
IssuedFor(s, kind) == hist[s].status # "unused" /\ hist[s].kind = kind

\* This step is the store executing the concepts query of the running
\* fetch of the batch page / its answer reaching the page, without an error.
ConceptsExecuted ==
    /\ page.route = "brief" /\ page.pc = "concepts"
    /\ page'.route = "brief" /\ page'.pc = "conceptsAnswer"
    /\ ~page'.answer.error
ConceptsAnswered ==
    /\ page.route = "brief" /\ page.pc = "conceptsAnswer"
    /\ page'.route = "brief" /\ page'.pc = "done"
    /\ ~page.answer.error

\* ---------------------------------------------------------------------
\* C17 - owner kinds are isolated: an identifier issued for a concept never
\* resolves through the batch route (the batch query finds nothing), one
\* issued for a batch never resolves through the concept route, and the
\* concepts listed under a resolved batch share are exactly those whose
\* brief_batch_id is the id of that batch when the store executes the
\* concepts query.
\* ---------------------------------------------------------------------
C17_OwnerKindIsolation ==
    [][/\ (QueryExecuted("brief") /\ IssuedFor(page.shareId, "concept"))
            => page'.answer.rows = {}
       /\ (QueryAnswered("brief") /\ IssuedFor(page.shareId, "concept"))
            => (page'.error = NotFoundBatch /\ page'.batch = None)
       /\ (QueryExecuted("concept") /\ IssuedFor(page.shareId, "batch"))
            => page'.answer.rows = {}
       /\ (QueryAnswered("concept") /\ IssuedFor(page.shareId, "batch"))
            => (page'.error = NotFoundConcept /\ page'.concept = None)
       /\ ConceptsExecuted
            => page'.answer.listed =
                  {c \in DOMAIN concepts : brief_batch_id[c] = page.batch}
       /\ ConceptsAnswered
            => (page'.concepts = page.answer.listed /\ page'.batch = page.batch)]_vars

\* The batch route has answered NotFound for the identifier of a concept
\* share that is in its concept's map and has not expired.
C17_Witness ==
    /\ page.route = "brief" /\ page.pc = "done"
    /\ page.error = NotFoundBatch
    /\ IssuedFor(page.shareId, "concept")
    /\ \E e \in MatchedEntries("concept", page.shareId) :
          e.expires_at = NoExpiry \/ e.expires_at >= now

\* The answer fetch p is waiting for holds an entry for its shareId that
\* has not expired at time clock.
ValidAnswer(p, clock) ==
    /\ AnswerEntries(p) # {}
    /\ \A e \in AnswerEntries(p) :
          e.expires_at = NoExpiry \/ e.expires_at >= clock

\* No fetch of the page is in flight.
Settled(p) == p.route # None /\ p.pc = "done" /\ p.older = EmptyBag

\* ---------------------------------------------------------------------
\* C14 - resolution is stateless: what a fetch yields depends on the answer
\* of the store and the current time only, not on earlier resolutions of the same page.
\* A valid shareId resolves successfully also when the page had failed for
\* its previous shareId, and the content shown once every fetch has ended
\* is that of the most recent shareId, also when two fetches overlapped.
\* ---------------------------------------------------------------------
C14_StatelessResolution ==
    [][/\ \A r \in {"brief", "concept"} :
            (QueryAnswered(r) /\ ValidAnswer(page, now))
            => (Succeeded(page') /\ YieldedEntity(page') \in page.answer.rows)
       /\ (Settled(page') /\ Rendered(page').view = "content")
            => /\ hist[page'.shareId].status # "unused"
               /\ Rendered(page').entity = hist[page'.shareId].ownerId]_vars

\* This step ends the running fetch of the page.
FetchEnds ==
    /\ page.route # None /\ page.pc # "done"
    /\ page'.route = page.route /\ page'.pc = "done"

\* The entity, permission and concept list in the page state are the same
\* in p and q.
SameContent(p, q) ==
    /\ YieldedEntity(q) = YieldedEntity(p)
    /\ YieldedEditable(q) = YieldedEditable(p)
    /\ p.route = "brief" => (q.concepts = p.concepts /\ q.brand = p.brand)

\* ---------------------------------------------------------------------
\* C18 - every fetch ends with loading = false; whenever a fetch ends with
\* error set, the page presents the error alone, without content or edit
\* permission, also when batch and isEditable were set before the concept
\* list query failed; a fetch that ends at its containment query without
\* a valid entry (NotFound, missing entry, Expired) leaves the batch or
\* concept state and isEditable as they were.
\* ---------------------------------------------------------------------
C18_ErrorPresentedAlone ==
    [][/\ FetchEnds
            => /\ ~page'.loading
               /\ page'.error # None
                    => Rendered(page') =
                          Screen("alert", page'.error, None, FALSE, {})
       /\ (FetchEnds /\ page.pc = "queryAnswer" /\ ~ValidAnswer(page, now))
            => (page'.error # None /\ SameContent(page, page'))]_vars

\* The concept list query has failed after batch and isEditable were set.
C18_Witness ==
    /\ page.route = "brief" /\ Settled(page)
    /\ page.error = DbError /\ ~page.loading
    /\ page.batch # None /\ page.isEditable /\ page.concepts = {}
    /\ Rendered(page).view = "alert"
====
